---------------------------- MODULE Spec2Model ----------------------------
(***************************************************************************)
(* Model of ACME_image_funcs.py: the HOBJ decoder read_hobj, the OMA2      *)
(* decoder read_oma and the OMA2 encoder write_oma.                        *)
(*                                                                         *)
(* A file is a sequence of bytes (0..255).  Byte offset k of a file f is   *)
(* f[k+1].  The native struct formats ('i', 'h', 'H', 'f') are those of a  *)
(* little-endian machine with 4-byte int, 2-byte short, 4-byte float.      *)
(* A float sample is modelled by its value when that value is an integer   *)
(* of magnitude below 2^24 (every such integer is a float32), and by its   *)
(* bit pattern otherwise.                                                  *)
(***************************************************************************)
EXTENDS Integers, Sequences, FiniteSets, TLC

VARIABLES disk,     \* the bytes of the file the calls open
          op,       \* the last call made: "none", "read_hobj", "read_oma", "write_oma"
          ret,      \* how the last call ended: a returned image or a raised exception
          handle,   \* the file handle the last call opened: "none", "open", "closed"
          data,     \* the image last handed to write_oma (NoImage before any)
          use_new   \* the use_new flag of that write_oma call

vars == <<disk, op, ret, handle, data, use_new>>

-----------------------------------------------------------------------------
(* Bytes, slices and file reads *)

Min(a, b) == IF a < b THEN a ELSE b

\* The sequence s as an explicit tuple: its elements are computed once.
AsTuple(s) == s \o <<>>

\* Python s[a:b] for 0 <= a <= b: clipped to the length of s.
Slice(s, a, b) == SubSeq(s, a + 1, Min(b, Len(s)))

\* Python s[::-1].
Reversed(s) == AsTuple([k \in 1..Len(s) |-> s[Len(s) + 1 - k]])

\* f.read(n) with the cursor at pos: up to n bytes, all the rest when n < 0.
FileRead(f, pos, n) == IF n < 0 THEN Slice(f, pos, Len(f)) ELSE Slice(f, pos, pos + n)

\* f.read(n * w).  Python integers are unbounded; here n is first clamped to
\* -1..Len(f), which reads the same bytes and keeps n * w within 32 bits.
ReadItems(f, pos, n, w) ==
  FileRead(f, pos, w * (IF n > Len(f) THEN Len(f) ELSE IF n < -1 THEN -1 ELSE n))

Zeros(n) == AsTuple([k \in 1..n |-> 0])

\* The concatenation of the chunks of items, each w bytes.
Chunks(items, w) ==
  AsTuple([k \in 1..(Len(items) * w) |-> items[((k - 1) \div w) + 1][((k - 1) % w) + 1]])

-----------------------------------------------------------------------------
(* struct: native (little-endian) fields *)

\* struct.unpack('h', b)[0] for 2 bytes b.
unpack_h(b) == LET u == b[1] + 256 * b[2] IN IF u >= 32768 THEN u - 65536 ELSE u

\* struct.unpack('i', b)[0] for 4 bytes b.
unpack_i(b) == (IF b[4] >= 128 THEN b[4] - 256 ELSE b[4]) * 16777216
                 + b[3] * 65536 + b[2] * 256 + b[1]

\* struct.pack('H', v) for 0 <= v < 65536.
pack_H(v) == <<v % 256, (v \div 256) % 256>>

\* struct.pack('i', v) for -2^31 <= v < 2^31.
pack_i(v) == <<v % 256, (v \div 256) % 256, (v \div 65536) % 256, (v \div 16777216) % 256>>

RECURSIVE Log2(_)
Log2(a) == IF a < 2 THEN 0 ELSE 1 + Log2(a \div 2)

\* struct.pack('f', d) for an integer d with |d| < 2^24: the IEEE-754 single.
pack_f(d) ==
  IF d = 0 THEN <<0, 0, 0, 0>>
  ELSE LET a    == IF d < 0 THEN -d ELSE d
           e    == Log2(a)
           mant == (a - 2^e) * 2^(23 - e)
           bexp == e + 127
           sign == IF d < 0 THEN 1 ELSE 0
       IN  <<mant % 256, (mant \div 256) % 256,
             (bexp % 2) * 128 + (mant \div 65536), sign * 128 + (bexp \div 2)>>

\* struct.unpack('f', b)[0] for 4 bytes b.
unpack_f(b) ==
  LET sign == b[4] \div 128
      bexp == (b[4] % 128) * 2 + (b[3] \div 128)
      mant == (b[3] % 128) * 65536 + b[2] * 256 + b[1]
      e    == bexp - 127
  IN  IF bexp = 0 /\ mant = 0 THEN 0
      ELSE IF e >= 0 /\ e <= 23 /\ mant % (2^(23 - e)) = 0
           THEN (IF sign = 1 THEN -1 ELSE 1) * (2^e + (mant \div 2^(23 - e)))
           ELSE [f32 |-> b]

\* struct.unpack('<h', b)[0] for 2 bytes b (explicit little-endian).
unpack_le_h(b) == LET u == b[1] + 256 * b[2] IN IF u >= 32768 THEN u - 65536 ELSE u

\* struct.unpack('{n}{c}', buf) succeeds iff n >= 0 and len(buf) = n * size(c);
\* a negative count gives the format '-1f', which struct rejects.
UnpackOk(n, w, buf) == n >= 0 /\ n <= Len(buf) /\ Len(buf) = n * w

\* The k-th field of width w of buf.
Field(buf, k, w) == SubSeq(buf, (k - 1) * w + 1, k * w)

\* struct.unpack('<{n}h', buf)
UnpackShorts(n, buf) == AsTuple([k \in 1..n |-> unpack_le_h(Field(buf, k, 2))])

\* struct.unpack('{n}i', buf)
UnpackInts(n, buf) == AsTuple([k \in 1..n |-> unpack_i(Field(buf, k, 4))])

\* struct.unpack('{n}f', buf)
UnpackFloats(n, buf) == AsTuple([k \in 1..n |-> unpack_f(Field(buf, k, 4))])

-----------------------------------------------------------------------------
(* Call outcomes and images *)

\* An image is its numpy shape (<<rows, cols>> or <<rows, cols, 3>>) and its
\* nested samples: px[r][c] is a value (mono) or <<red, green, blue>> (color).
NoImage == [shape |-> <<>>, px |-> <<>>]

NoResult == [status |-> "none", exc |-> "", shape |-> <<>>, px |-> <<>>]

Raised(exc) == [status |-> "raised", exc |-> exc, shape |-> <<>>, px |-> <<>>]

Returned(shape, px) == [status |-> "returned", exc |-> "", shape |-> shape, px |-> px]

-----------------------------------------------------------------------------
(* numpy *)

\* What np.array(flat).reshape(r, c) makes of n = len(flat) elements:
\* <<ok, rows, cols>>.  One dimension given as -1 is inferred from n and the
\* other; any other negative dimension, and a size that does not fit, raise
\* ValueError.
ReshapeDims(n, r, c) ==
  IF r >= 0 /\ c >= 0 THEN <<r * c = n, r, c>>
  ELSE IF r = -1 /\ c > 0 THEN <<n % c = 0, n \div c, c>>
  ELSE IF c = -1 /\ r > 0 THEN <<n % r = 0, r, n \div r>>
  ELSE <<FALSE, 0, 0>>

\* The row-major rows x cols array over flat.
RowMajor(flat, rows, cols) ==
  AsTuple([r \in 1..rows |-> AsTuple([c \in 1..cols |-> flat[(r - 1) * cols + c]])])

\* np.reshape(px, rows*cols) of a 2-D array: its samples in row-major order.
Flatten(px, rows, cols) ==
  AsTuple([k \in 1..(rows * cols) |-> px[((k - 1) \div cols) + 1][((k - 1) % cols) + 1]])

\* data[:, :, p] of a rows x cols x 3 array (p = 0, 1, 2).
Plane(px, p) ==
  AsTuple([r \in 1..Len(px) |-> AsTuple([c \in 1..Len(px[r]) |-> px[r][c][p + 1]])])

-----------------------------------------------------------------------------
(* read_hobj *)

HobjHeaderLen == 84

\* The mutant of HobjDataOffset: the payload taken one byte early.
HobjDataOffsetShort(rows) == 84 + rows * 6 + 16

\* The file offset of the pixel payload: f.seek(84+rows*6+17).
HobjDataOffset(rows) == 84 + rows * 6 + 17

\* ibuffer[a:b][::-1]: a header field, byte-reversed before the native unpack.
HobjField(ibuffer, a, b) == Reversed(Slice(ibuffer, a, b))

\* The image made of the npixels shorts of image_str.
HobjImage(npixels, image_str, dims) ==
  IF ~UnpackOk(npixels, 2, image_str) THEN Raised("struct.error")
  ELSE IF ~dims[1] THEN Raised("ValueError")
  ELSE Returned(<<dims[2], dims[3]>>,
                RowMajor(UnpackShorts(npixels, image_str), dims[2], dims[3]))

\* The seek to the payload and its read, for the header values.
HobjDecode(f, npixels, rows, cols) ==
  IF HobjDataOffset(rows) < 0 THEN Raised("OSError")
  ELSE HobjImage(npixels, ReadItems(f, HobjDataOffset(rows), npixels, 2),
                 ReshapeDims(npixels, rows, cols))

\* The three header fields of the first 84 bytes.
HobjHeader(f, bnpix, brows, bcols) ==
  IF Len(bnpix) # 4 THEN Raised("struct.error")
  ELSE IF Len(brows) # 2 THEN Raised("struct.error")
  ELSE IF Len(bcols) # 2 THEN Raised("struct.error")
  ELSE HobjDecode(f, unpack_i(bnpix), unpack_h(brows) + 1, unpack_h(bcols) + 1)

read_hobj(f) ==
  HobjHeader(f, HobjField(FileRead(f, 0, HobjHeaderLen), 72, 76),
             HobjField(FileRead(f, 0, HobjHeaderLen), 80, 82),
             HobjField(FileRead(f, 0, HobjHeaderLen), 82, 84))

-----------------------------------------------------------------------------
(* read_oma *)

\* b'OMA2 Binary Data'
OmaTag == <<79, 77, 65, 50, 32, 66, 105, 110, 97, 114, 121, 32, 68, 97, 116, 97>>

\* Python's  t in h  for byte strings.
Contains(h, t) == \E i \in 0..(Len(h) - Len(t)) : SubSeq(h, i + 1, i + Len(t)) = t

\* b'OMA2 Binary Data' in image_file.read(30)
IsTagged(f) == Contains(FileRead(f, 0, 30), OmaTag)

\* A parsed header: the exception it raised ("" when none), the geometry, the
\* color flag and the cursor position where the payload starts.
Header(exc, row, col, is_color, pos) ==
  [exc |-> exc, row |-> row, col |-> col, is_color |-> is_color, pos |-> pos]

HeaderRaised(exc) == Header(exc, 0, 0, 0, 0)

\* The end of the tagged header: the comment and extra blocks, each read only
\* when its size is positive, then specs[0], specs[1] and specs[8].
OmaTaggedTail(f, nspecs, specs, pcomment, commentSize, extraSize) ==
  LET ncomment == IF commentSize > 0 THEN commentSize ELSE 0
      nextra   == IF extraSize > 0 THEN extraSize ELSE 0
  IN  IF Len(ReadItems(f, pcomment, ncomment, 1)) # ncomment
        THEN HeaderRaised("struct.error")
      ELSE IF Len(ReadItems(f, pcomment + ncomment, nextra, 1)) # nextra
        THEN HeaderRaised("struct.error")
      ELSE IF nspecs < 9 THEN HeaderRaised("IndexError")
      ELSE Header("", specs[1], specs[2], specs[9], pcomment + ncomment + nextra)

\* The specs, values and ruler characters, each sized by its count, and the
\* four integers (error, is_big_endian, commentSize, extraSize) after them.
OmaTaggedFields(f, nspecs, nvalues, nrulerchar) ==
  IF ~UnpackOk(nspecs, 4, ReadItems(f, 42, nspecs, 4))
    THEN HeaderRaised("struct.error")
  ELSE IF ~UnpackOk(nvalues, 4, ReadItems(f, 42 + 4 * nspecs, nvalues, 4))
    THEN HeaderRaised("struct.error")
  ELSE IF ~UnpackOk(nrulerchar, 1, ReadItems(f, 42 + 4 * nspecs + 4 * nvalues, nrulerchar, 1))
    THEN HeaderRaised("struct.error")
  ELSE
  LET pfixed == 42 + 4 * nspecs + 4 * nvalues + nrulerchar
      bfixed == FileRead(f, pfixed, 16)
  IN  IF Len(bfixed) # 16 THEN HeaderRaised("struct.error")
      ELSE OmaTaggedTail(f, nspecs, UnpackInts(nspecs, FileRead(f, 42, 4 * nspecs)),
                         pfixed + 16,
                         unpack_i(SubSeq(bfixed, 9, 12)), unpack_i(SubSeq(bfixed, 13, 16)))

\* The tagged header, read field by field after the 30 tag bytes: first
\* nspecs, nvalues, nrulerchar = unpack('iii'); every count sizes a later read.
OmaTaggedHeader(f) ==
  LET counts == FileRead(f, 30, 12)
  IN  IF Len(counts) # 12 THEN HeaderRaised("struct.error")
      ELSE OmaTaggedFields(f, unpack_i(SubSeq(counts, 1, 4)), unpack_i(SubSeq(counts, 5, 8)),
                           unpack_i(SubSeq(counts, 9, 12)))

\* The mutant of OmaLegacyHeader: the two shorts taken as (row, col).
OmaLegacyHeaderSwapped(f) ==
  LET b == FileRead(f, 7 * 2, 4)
  IN  IF Len(b) # 4 THEN HeaderRaised("struct.error")
      ELSE Header("", unpack_h(SubSeq(b, 1, 2)), unpack_h(SubSeq(b, 3, 4)), 0, 256 * 2 + 80 * 4)

\* The legacy header: col, row = unpack('hh') at offset 7*2, the payload at
\* 256*2+80*4, is_color = 0.
OmaLegacyHeader(f) ==
  LET b == FileRead(f, 7 * 2, 4)
  IN  IF Len(b) # 4 THEN HeaderRaised("struct.error")
      ELSE Header("", unpack_h(SubSeq(b, 3, 4)), unpack_h(SubSeq(b, 1, 2)), 0, 256 * 2 + 80 * 4)

\* int(row/3): true division, truncated towards zero.
RowSize(row) == IF row >= 0 THEN row \div 3 ELSE -((-row) \div 3)

\* The mutant of OmaColorImage: the green and blue bands exchanged.
OmaColorImageSwapped(image, row, col) ==
  LET row_size == RowSize(row)
  IN  Returned(<<row_size, col, 3>>,
               AsTuple([r \in 1..row_size |-> AsTuple([c \in 1..col |->
                  <<image[r][c], image[2 * row_size + r][c], image[row_size + r][c]>>])]))

\* The color image built from the three bands of row_size rows of the plane.
OmaColorImage(image, row, col) ==
  LET row_size == RowSize(row)
  IN  Returned(<<row_size, col, 3>>,
               AsTuple([r \in 1..row_size |-> AsTuple([c \in 1..col |->
                  <<image[r][c], image[row_size + r][c], image[2 * row_size + r][c]>>])]))

\* if is_color==1
OmaIsColor(is_color) == is_color = 1

\* The image made of the npixels floats of image_str, for a parsed header h.
OmaImage(h, npixels, image_str, dims) ==
  IF ~UnpackOk(npixels, 4, image_str) THEN Raised("struct.error")
  ELSE IF ~dims[1] THEN Raised("ValueError")
  ELSE IF OmaIsColor(h.is_color)
    THEN OmaColorImage(RowMajor(UnpackFloats(npixels, image_str), dims[2], dims[3]),
                       h.row, h.col)
  ELSE Returned(<<dims[2], dims[3]>>,
                RowMajor(UnpackFloats(npixels, image_str), dims[2], dims[3]))

\* The payload read for a parsed header h: npixels = row*col floats at h.pos.
OmaDecode(f, h) ==
  IF h.exc # "" THEN Raised(h.exc)
  ELSE OmaImage(h, h.row * h.col, ReadItems(f, h.pos, h.row * h.col, 4),
                ReshapeDims(h.row * h.col, h.row, h.col))

read_oma(f) == OmaDecode(f, IF IsTagged(f) THEN OmaTaggedHeader(f) ELSE OmaLegacyHeader(f))

\* The handle read_oma opened, when the call ends: image_file.close() comes
\* after the last statement that can raise and is not in a finally clause.
OmaHandleAfter(r) == IF r.status = "raised" THEN "open" ELSE "closed"

-----------------------------------------------------------------------------
(* write_oma *)

\* b'OMA2 Binary Data 1.0' followed by ten null bytes
OmaNewHeader == OmaTag \o <<32, 49, 46, 48>> \o Zeros(10)

\* The 32 specs written, with specs[0] = row, specs[1] = col, specs[8] = is_color.
OmaSpecs(row, col, is_color) ==
  <<row, col, 0, 0, 1, 1, 117315, 600, is_color, 1, 0, 117315, 600, 117314, 26, 121200,
    33, 0, 2, 0, 1, 0, 2, 0, 16, 0, 0, 0, 0, 0, 2791529, 0>>

IsColorData(img) == Len(img.shape) > 2 /\ img.shape[3] = 3

\* The mutant of StackPlanes: the planes stacked blue, green, red.
StackPlanesReversed(px) == Plane(px, 2) \o Plane(px, 1) \o Plane(px, 0)

\* np.vstack([data[:,:,0], data[:,:,1], data[:,:,2]])
StackPlanes(px) == Plane(px, 0) \o Plane(px, 1) \o Plane(px, 2)

\* The payload: every sample of the row x col plane as a native float.
PackFloats(flat) == Chunks(AsTuple([k \in 1..Len(flat) |-> pack_f(flat[k])]), 4)

OmaPayload(px, row, col) == PackFloats(Flatten(px, row, col))

\* for spec in specs: oma_file.write(struct.pack('i', spec))
PackInts(specs) == Chunks(AsTuple([k \in 1..Len(specs) |-> pack_i(specs[k])]), 4)

\* The bytes written with use_new=True; ruler is the 16 bytes os.urandom gave.
write_oma_new(img, ruler) ==
  LET is_color == IF IsColorData(img) THEN 1 ELSE 0
      px       == IF IsColorData(img) THEN StackPlanes(img.px) ELSE img.px
      row      == IF IsColorData(img) THEN 3 * img.shape[1] ELSE img.shape[1]
      col      == img.shape[2]
  IN  OmaNewHeader \o pack_i(32) \o pack_i(16) \o pack_i(16)
        \o PackInts(OmaSpecs(row, col, is_color)) \o PackFloats(Zeros(16)) \o ruler
        \o pack_i(0) \o pack_i(0) \o pack_i(0) \o pack_i(0)
        \o OmaPayload(px, row, col)

\* The mutant of LegacyHeaderWords: word 8 given the stacked row count.
LegacyHeaderWordsStacked(img) ==
  AsTuple([k \in 1..256 |-> IF k = 227 THEN 32639
                    ELSE IF k = 8 THEN img.shape[2]
                    ELSE IF k = 9 THEN (IF Len(img.shape) = 3 THEN 3 * img.shape[1]
                                        ELSE img.shape[1])
                    ELSE 0])

\* The 256 uint16 header words: header[226] = le, header[7] = col,
\* header[8] = row, set before the planes are stacked.
LegacyHeaderWords(img) ==
  AsTuple([k \in 1..256 |-> IF k = 227 THEN 32639
                    ELSE IF k = 8 THEN img.shape[2]
                    ELSE IF k = 9 THEN img.shape[1]
                    ELSE 0])

\* for h in header: oma_file.write(struct.pack('H', h))
PackWords(header) == Chunks(AsTuple([k \in 1..Len(header) |-> pack_H(header[k])]), 2)

\* The bytes written with use_new=False.
write_oma_legacy(img) ==
  LET px        == IF Len(img.shape) = 3 THEN StackPlanes(img.px) ELSE img.px
      row       == IF Len(img.shape) = 3 THEN 3 * img.shape[1] ELSE img.shape[1]
      col       == img.shape[2]
  IN  PackWords(LegacyHeaderWords(img)) \o PackFloats(Zeros(80)) \o OmaPayload(px, row, col)

write_oma(img, new, ruler) ==
  IF new THEN write_oma_new(img, ruler) ELSE write_oma_legacy(img)

-----------------------------------------------------------------------------
(* The inputs: the files handed to the decoders, the images handed to the  *)
(* encoder.                                                                *)

MaxHobjDim  == 2    \* HOBJ headers declare up to MaxHobjDim rows and columns
MaxFileRows == 7    \* OMA2 headers declare up to MaxFileRows rows
MaxFileCols == 4    \* and up to MaxFileCols columns
MaxImgRows  == 3    \* images handed to write_oma have up to MaxImgRows rows
MaxImgCols  == 3    \* and up to MaxImgCols columns

\* Filler and payload bytes of a HOBJ file: no two neighbours alike.
TailByte(k) == (k * 37 + 11) % 256

\* The k-th float of an OMA2 payload: all distinct, of both signs.
PayloadVal(k) == IF k % 2 = 0 THEN -3 * k ELSE 5 * k

HobjTailLen == 6 * MaxHobjDim + 17 + 2 * (MaxHobjDim * MaxHobjDim + 1) + 2

\* A HOBJ file: the three big-endian header fields, then taillen more bytes.
HobjFile(npixels, rows_m1, cols_m1, taillen) ==
  Zeros(72) \o Reversed(pack_i(npixels)) \o Zeros(4)
    \o Reversed(pack_H(rows_m1 % 65536)) \o Reversed(pack_H(cols_m1 % 65536))
    \o AsTuple([k \in 1..taillen |-> TailByte(k)])

HobjFiles ==
  { HobjFile(n, r, c, t) : n \in -1..(MaxHobjDim * MaxHobjDim + 1),
                           r \in -2..(MaxHobjDim - 1), c \in -2..(MaxHobjDim - 1),
                           t \in {HobjTailLen \div 2, HobjTailLen} }

\* s without its last n bytes.
DropLast(s, n) == SubSeq(s, 1, Len(s) - Min(n, Len(s)))

FloatPayload(n) == PackFloats(AsTuple([k \in 1..n |-> PayloadVal(k)]))

\* A tagged OMA2 file of lay = <<nspecs, nvalues, nrulerchar, commentSize,
\* extraSize>> whose specs are the first nspecs of the encoder's, then row*col
\* floats, the last drop bytes missing.
TaggedFile(lay, row, col, is_color, drop) ==
  DropLast(OmaNewHeader \o pack_i(lay[1]) \o pack_i(lay[2]) \o pack_i(lay[3])
                 \o PackInts(SubSeq(OmaSpecs(row, col, is_color), 1, lay[1]))
                 \o PackFloats(Zeros(lay[2]))
                 \o AsTuple([k \in 1..lay[3] |-> TailByte(k)])
                 \o pack_i(0) \o pack_i(0) \o pack_i(lay[4]) \o pack_i(lay[5])
                 \o AsTuple([k \in 1..(lay[4] + lay[5]) |-> TailByte(k)])
                 \o FloatPayload(row * col),
               drop)

FullLayouts == { <<32, 16, 16, 0, 0>>, <<9, 1, 3, 2, 5>> }

ShortLayouts == { <<n, 16, 16, 0, 0>> : n \in 0..8 } \cup { <<n, 1, 3, 2, 5>> : n \in 0..8 }

TaggedFiles ==
  { TaggedFile(lay, row, col, ic, drop) :
      lay \in FullLayouts, row \in {-3} \cup 0..MaxFileRows, col \in 1..MaxFileCols,
      ic \in {-1, 0, 1, 2}, drop \in {0, 1} }
  \cup
  { TaggedFile(lay, 3, 1, 1, drop) : lay \in ShortLayouts, drop \in {0, 1, 13, 40} }

\* A legacy OMA2 file: col and row at byte 14, the payload at byte 832.
LegacyFile(col, row, drop) ==
  DropLast(Zeros(14) \o pack_H(col % 65536) \o pack_H(row % 65536) \o Zeros(814)
             \o FloatPayload(row * col),
           drop)

LegacyFiles ==
  { LegacyFile(col, row, drop) :
      col \in -1..MaxFileCols, row \in -1..MaxFileRows, drop \in {0, 1} }

\* The empty file, and files that end inside their header.
StubFiles == { <<>>, Zeros(50), OmaNewHeader, OmaNewHeader \o pack_i(32) }

InputFiles == HobjFiles \cup TaggedFiles \cup LegacyFiles \cup StubFiles

\* The sample at linear index k of an image of seed s.
ImgVal(s, k) == s * k

\* The rows x cols image (planes = 1) or rows x cols x 3 image (planes = 3)
\* of seed s: no two samples alike.
MkImage(rows, cols, planes, s) ==
  [shape |-> IF planes = 3 THEN <<rows, cols, 3>> ELSE <<rows, cols>>,
   px    |-> AsTuple([r \in 1..rows |-> AsTuple([c \in 1..cols |->
                LET k == (r - 1) * cols + c
                IN  IF planes = 3
                    THEN <<ImgVal(s, k), ImgVal(s, k + rows * cols),
                           ImgVal(s, k + 2 * rows * cols)>>
                    ELSE ImgVal(s, k)])])]

Images ==
  { MkImage(rows, cols, planes, s) :
      rows \in 1..MaxImgRows, cols \in 1..MaxImgCols, planes \in {1, 3}, s \in {1, -257} }

\* What os.urandom may give for the 16 ruler bytes: among them the tag itself.
Rulers == { Zeros(16), AsTuple([k \in 1..16 |-> 255]), OmaTag }

-----------------------------------------------------------------------------
(* The calls.  A behaviour decodes a given file, any number of times, or   *)
(* encodes an image into a new file and then decodes that file.            *)

Init ==
  /\ disk \in InputFiles
  /\ op = "none"
  /\ ret = NoResult
  /\ handle = "none"
  /\ data = NoImage
  /\ use_new = FALSE

\* read_hobj(disk): the with statement closes the file on every exit.
CallReadHobj ==
  /\ op' = "read_hobj"
  /\ ret' = read_hobj(disk)
  /\ handle' = "closed"
  /\ UNCHANGED <<disk, data, use_new>>

\* read_oma(disk)
CallReadOma ==
  /\ op' = "read_oma"
  /\ ret' = read_oma(disk)
  /\ handle' = OmaHandleAfter(ret')
  /\ UNCHANGED <<disk, data, use_new>>

\* write_oma(img, oma_filename, new) into a new file; it returns None.
CallWriteOma ==
  /\ op = "none"
  /\ disk = <<>>
  /\ \E img \in Images, new \in BOOLEAN, ruler \in Rulers :
       /\ disk' = write_oma(img, new, ruler)
       /\ data' = img
       /\ use_new' = new
  /\ op' = "write_oma"
  /\ ret' = Returned(<<>>, <<>>)
  /\ handle' = "closed"

Next == CallReadHobj \/ CallReadOma \/ CallWriteOma

Spec == Init /\ [][Next]_vars

-----------------------------------------------------------------------------
(* What a file holds at a byte offset, stated on the bytes themselves *)

Byte(f, k) == f[k + 1]

BE16At(f, k) ==
  LET u == 256 * Byte(f, k) + Byte(f, k + 1) IN IF u >= 32768 THEN u - 65536 ELSE u

BE32At(f, k) ==
  (IF Byte(f, k) >= 128 THEN Byte(f, k) - 256 ELSE Byte(f, k)) * 16777216
    + 65536 * Byte(f, k + 1) + 256 * Byte(f, k + 2) + Byte(f, k + 3)

LE16At(f, k) ==
  LET u == Byte(f, k) + 256 * Byte(f, k + 1) IN IF u >= 32768 THEN u - 65536 ELSE u

LE32At(f, k) ==
  Byte(f, k) + 256 * Byte(f, k + 1) + 65536 * Byte(f, k + 2)
    + (IF Byte(f, k + 3) >= 128 THEN Byte(f, k + 3) - 256 ELSE Byte(f, k + 3)) * 16777216

FloatAt(f, k) == unpack_f(<<Byte(f, k), Byte(f, k + 1), Byte(f, k + 2), Byte(f, k + 3)>>)

Positive(n) == IF n > 0 THEN n ELSE 0

\* The layout of a tagged file: the three counts at byte 30, the specs at
\* byte 42, the four integers after the ruler, the payload after the comment
\* and extra blocks.
TagNspecs(f)   == LE32At(f, 30)
TagNvalues(f)  == LE32At(f, 34)
TagNruler(f)   == LE32At(f, 38)
TagSpec(f, k)  == LE32At(f, 42 + 4 * k)
TagFixedPos(f) == 42 + 4 * TagNspecs(f) + 4 * TagNvalues(f) + TagNruler(f)
TagDataPos(f)  ==
  TagFixedPos(f) + 16 + Positive(LE32At(f, TagFixedPos(f) + 8))
    + Positive(LE32At(f, TagFixedPos(f) + 12))

\* The file holds its whole tagged header.
TagHeaderComplete(f) ==
  /\ Len(f) >= 42
  /\ TagNspecs(f) >= 0 /\ TagNvalues(f) >= 0 /\ TagNruler(f) >= 0
  /\ TagNspecs(f) <= Len(f) /\ TagNvalues(f) <= Len(f) /\ TagNruler(f) <= Len(f)
  /\ Len(f) >= TagFixedPos(f) + 16
  /\ Len(f) >= TagDataPos(f)

\* The sample of image img at row r, column c, plane p (all from 0).
Sample(img, r, c, p) ==
  IF Len(img.shape) = 3 THEN img.px[r + 1][c + 1][p + 1] ELSE img.px[r + 1][c + 1]

-----------------------------------------------------------------------------
(* C1 *)

RoundTripNew == op = "read_oma" /\ data # NoImage /\ use_new

\* C1: an image written by write_oma(use_new=True) and read back by read_oma
\* comes back with the same rows, cols, channel layout and samples, whatever
\* the ruler bytes are.
C1_RoundTripNew ==
  RoundTripNew =>
    /\ ret.status = "returned"
    /\ ret.shape = data.shape
    /\ \A r \in 0..(data.shape[1] - 1), c \in 0..(data.shape[2] - 1),
          p \in 0..(IF Len(data.shape) = 3 THEN 2 ELSE 0) :
         Sample(ret, r, c, p) = Sample(data, r, c, p)

\* A color image of two rows or more came back, the ruler holding the tag text.
C1_Witness ==
  /\ RoundTripNew
  /\ Len(data.shape) = 3 /\ data.shape[1] >= 2 /\ data.shape[2] >= 2
  /\ SubSeq(disk, 235, 250) = OmaTag
  /\ ret.status = "returned" /\ ret.shape = data.shape
  /\ Sample(ret, 1, 1, 2) = Sample(data, 1, 1, 2)

-----------------------------------------------------------------------------
(* C2 *)

C2_Image(r, f, npixels, rows, cols) ==
  (rows >= 0 /\ cols >= 0 /\ npixels = rows * cols
     /\ Len(f) >= 84 + rows * 6 + 17 + 2 * npixels)
  => /\ r.status = "returned"
     /\ r.shape = <<rows, cols>>
     /\ \A i \in 0..(rows - 1), j \in 0..(cols - 1) :
          r.px[i + 1][j + 1] = LE16At(f, 84 + rows * 6 + 17 + 2 * (i * cols + j))

\* C2: read_hobj on a file long enough, whose npixels (big-endian at 72) is
\* rows*cols (big-endian shorts at 80 and 82, plus 1), returns the rows x cols
\* image whose sample (r, c) is the little-endian short at
\* 84 + rows*6 + 17 + 2*(r*cols + c).
C2_HobjDecodes ==
  (op = "read_hobj" /\ Len(disk) >= 84)
  => C2_Image(ret, disk, BE32At(disk, 72), BE16At(disk, 80) + 1, BE16At(disk, 82) + 1)

\* rows_minus1 = 0, cols_minus1 = 0, npixels = 1: the 1x1 image of the sample
\* at byte 107.
C2_Witness ==
  /\ op = "read_hobj" /\ Len(disk) >= 109
  /\ BE32At(disk, 72) = 1 /\ BE16At(disk, 80) = 0 /\ BE16At(disk, 82) = 0
  /\ ret.status = "returned" /\ ret.shape = <<1, 1>>
  /\ ret.px[1][1] = LE16At(disk, 107)

-----------------------------------------------------------------------------
(* C3 *)

C3_Fails(r, npixels, rows, cols) == npixels # rows * cols => r.status = "raised"

\* C3: read_hobj on a header whose npixels differs from rows*cols ends in a
\* failure and returns no image.
C3_MismatchFails ==
  (op = "read_hobj" /\ Len(disk) >= 84)
  => C3_Fails(ret, BE32At(disk, 72), BE16At(disk, 80) + 1, BE16At(disk, 82) + 1)

-----------------------------------------------------------------------------
(* C4 *)

\* The error the specification names for a specs array shorter than 9.
MissingSpecs == "MissingSpecs"

\* C4: read_oma on a tagged file declaring nspecs < 9 fails with MissingSpecs,
\* without indexing the specs array past its length (which is what Python
\* reports as IndexError).
C4_MissingSpecs ==
  (op = "read_oma" /\ IsTagged(disk) /\ Len(disk) >= 42
     /\ TagNspecs(disk) >= 0 /\ TagNspecs(disk) < 9)
  => (ret.status = "raised" /\ ret.exc = MissingSpecs)

-----------------------------------------------------------------------------
(* C5 *)

\* C5: read_oma on a tagged color file (specs[8] = 1) whose rows are not
\* divisible by 3 fails and returns no image.
C5_NotDivisibleFails ==
  (op = "read_oma" /\ IsTagged(disk) /\ TagHeaderComplete(disk) /\ TagNspecs(disk) >= 9
     /\ TagSpec(disk, 8) = 1 /\ TagSpec(disk, 0) % 3 # 0)
  => ret.status = "raised"

-----------------------------------------------------------------------------
(* C6 *)

\* A tagged file read by read_oma whose header is whole and has 9 specs or more.
TaggedRead == op = "read_oma" /\ IsTagged(disk) /\ TagHeaderComplete(disk) /\ TagNspecs(disk) >= 9

\* The file f holds rows*cols floats from byte pdata on.
HoldsPayload(f, pdata, rows, cols) == rows >= 0 /\ cols >= 0 /\ Len(f) >= pdata + 4 * rows * cols

\* r is the (rows/3) x cols x 3 image of the three bands of the payload at pdata.
IsBandImage(r, f, pdata, rows, cols) ==
  /\ r.status = "returned"
  /\ r.shape = <<rows \div 3, cols, 3>>
  /\ \A i \in 0..((rows \div 3) - 1), j \in 0..(cols - 1), p \in 0..2 :
       r.px[i + 1][j + 1][p + 1] = FloatAt(f, pdata + 4 * ((p * (rows \div 3) + i) * cols + j))

\* r is the mono rows x cols image of the payload at pdata.
IsMonoImage(r, f, pdata, rows, cols) ==
  /\ r.status = "returned"
  /\ r.shape = <<rows, cols>>
  /\ \A i \in 0..(rows - 1), j \in 0..(cols - 1) :
       r.px[i + 1][j + 1] = FloatAt(f, pdata + 4 * (i * cols + j))

\* C6: read_oma on a tagged file with specs[8] = 1 and specs[0] = rows
\* divisible by 3 returns the (rows/3) x cols x 3 image whose red, green and
\* blue planes are the first, second and third band of rows/3 stored rows.
C6_ColorSplit ==
  (TaggedRead /\ TagSpec(disk, 8) = 1 /\ TagSpec(disk, 0) % 3 = 0
     /\ HoldsPayload(disk, TagDataPos(disk), TagSpec(disk, 0), TagSpec(disk, 1)))
  => IsBandImage(ret, disk, TagDataPos(disk), TagSpec(disk, 0), TagSpec(disk, 1))

\* rows = 6, cols = 4: the 2x4x3 image, its blue plane starting at stored row 4.
C6_Witness ==
  /\ TaggedRead /\ TagSpec(disk, 8) = 1 /\ TagSpec(disk, 0) = 6 /\ TagSpec(disk, 1) = 4
  /\ ret.status = "returned" /\ ret.shape = <<2, 4, 3>>
  /\ ret.px[1][1][3] = FloatAt(disk, TagDataPos(disk) + 4 * 16)
  /\ ret.px[1][1][3] # ret.px[1][1][2]

-----------------------------------------------------------------------------
(* C7 *)

\* An untagged file read by read_oma that holds the two shorts at byte 14.
LegacyRead == op = "read_oma" /\ ~IsTagged(disk) /\ Len(disk) >= 18

\* C7: read_oma on an untagged file takes the short at byte 14 as cols and the
\* one at byte 16 as rows, and returns the mono rows x cols image of the
\* rows*cols floats at byte 832.
C7_LegacyDecode ==
  (LegacyRead /\ HoldsPayload(disk, 832, LE16At(disk, 16), LE16At(disk, 14)))
  => IsMonoImage(ret, disk, 832, LE16At(disk, 16), LE16At(disk, 14))

\* cols = 4, rows = 2 gave a 2x4 image.
C7_Witness ==
  /\ LegacyRead /\ LE16At(disk, 14) = 4 /\ LE16At(disk, 16) = 2
  /\ ret.status = "returned" /\ ret.shape = <<2, 4>>
  /\ ret.px[2][1] = FloatAt(disk, 832 + 16)

-----------------------------------------------------------------------------
(* C8 *)

\* C8: whatever call was made, the file handle it opened is closed when the
\* call has ended, whether it returned or raised.
C8_HandleClosed == op # "none" => handle = "closed"

-----------------------------------------------------------------------------
(* C9 *)

\* C9: read_oma on a tagged file returns the (rows/3) x cols x 3 color image
\* for every nonzero specs[8], and the mono rows x cols image for specs[8] = 0.
C9_NonzeroIsColor ==
  (TaggedRead /\ TagSpec(disk, 0) % 3 = 0
     /\ HoldsPayload(disk, TagDataPos(disk), TagSpec(disk, 0), TagSpec(disk, 1)))
  => IF TagSpec(disk, 8) # 0
     THEN IsBandImage(ret, disk, TagDataPos(disk), TagSpec(disk, 0), TagSpec(disk, 1))
     ELSE IsMonoImage(ret, disk, TagDataPos(disk), TagSpec(disk, 0), TagSpec(disk, 1))

-----------------------------------------------------------------------------
(* C10 *)

\* The file on disk was written by write_oma(data, use_new=False).
LegacyWritten == op # "none" /\ data # NoImage /\ ~use_new

DataPlanes == IF Len(data.shape) = 3 THEN 3 ELSE 1

\* The legacy file of image img: word 7 = cols, word 8 = the rows of img,
\* word 226 = 32639, every other header byte and the 80 floats zero, then
\* the planes of img one after the other.
IsLegacyFileOf(f, img, rows, cols, planes) ==
  /\ Len(f) = 832 + 4 * planes * rows * cols
  /\ LE16At(f, 14) = cols /\ LE16At(f, 16) = rows /\ LE16At(f, 452) = 32639
  /\ \A k \in 0..831 : (k \notin {14, 15, 16, 17, 452, 453}) => Byte(f, k) = 0
  /\ \A p \in 0..(planes - 1), i \in 0..(rows - 1), j \in 0..(cols - 1) :
       FloatAt(f, 832 + 4 * ((p * rows + i) * cols + j)) = Sample(img, i, j, p)

\* r is the mono rows x cols image of plane 0 of img.
IsFirstPlaneOf(r, img, rows, cols) ==
  /\ r.status = "returned"
  /\ r.shape = <<rows, cols>>
  /\ \A i \in 0..(rows - 1), j \in 0..(cols - 1) : r.px[i + 1][j + 1] = Sample(img, i, j, 0)

\* C10: write_oma(use_new=False) writes the legacy header with the image's own
\* rows and all the planes; read_oma of that file returns the mono rows x cols
\* image that is the image itself (mono) or its red plane (color).
C10_LegacyRoundTrip ==
  LegacyWritten =>
    /\ IsLegacyFileOf(disk, data, data.shape[1], data.shape[2], DataPlanes)
    /\ op = "read_oma" => IsFirstPlaneOf(ret, data, data.shape[1], data.shape[2])

\* A color image of two rows or more came back as its red plane alone.
C10_Witness ==
  /\ LegacyWritten /\ op = "read_oma"
  /\ Len(data.shape) = 3 /\ data.shape[1] >= 2 /\ data.shape[2] >= 2
  /\ ret.status = "returned" /\ ret.shape = <<data.shape[1], data.shape[2]>>
  /\ ret.px[2][2] = data.px[2][2][1]
  /\ Len(disk) = 832 + 12 * data.shape[1] * data.shape[2]

=============================================================================
